---- MODULE Spec2Model ----
(***************************************************************************)
(* Model of the editor-side synchronization controller of Corpus           *)
(* (extension/src/ui/sync_controller.js, createSyncController).            *)
(*                                                                         *)
(* One controller instance on one durable storage area.  Every await of    *)
(* the source is a suspension point.  The storage area serves its calls in *)
(* the order they are made, so a set takes effect (or fails) when it is    *)
(* called and a get reads what the earlier sets left; the caller resumes   *)
(* in a later step.  A remote command is outstanding while a flush call    *)
(* sits at pc "send" (CV_UPDATE_TYPE) or "load" (STATE_LOAD).  A           *)
(* JavaScript object used as a map keeps its keys in insertion order, so a *)
(* draft map is a sequence of draft records with distinct cvTypeId.        *)
(***************************************************************************)
EXTENDS Integers, Sequences, FiniteSets, Bags, TLC

\* ---------------------------------------------------------------- bounds
MaxPayload == 2
MaxClock == 2
MaxFlushCalls == 2
MaxEdits == 2
MaxInstances == 1
MaxRestores == 1
MaxStamp == 5
MaxEvents == 5

EntitySeq == <<"t1", "t2">>
Entities == {EntitySeq[i] : i \in 1..Len(EntitySeq)}
EntityIds == Entities \cup {""}
Payloads == 1..MaxPayload
ClockValues == 1..MaxClock
BaseVersions == {"r1"}
ErrorCodes == {"STATE_CONFLICT", "TOKEN_EXPIRED"}

\* ------------------------------------------------------- remote envelopes
\* A remote state is null (no state), an object without a cvTypes array, or
\* an object whose cvTypes is an array of {id, data}.
RemoteData == {0}
TypeRecs == [id : Entities, data : RemoteData]
TypesOf(S, data) ==
    LET ids == SelectSeq(EntitySeq, LAMBDA e : e \in S)
    IN  [i \in 1..Len(ids) |-> [id |-> ids[i], data |-> data]]
TypeLists == {TypesOf(S, data) : S \in SUBSET Entities, data \in RemoteData}
RemoteStates ==
    {[kind |-> "null", cvTypes |-> <<>>], [kind |-> "nolist", cvTypes |-> <<>>]}
        \cup {[kind |-> "list", cvTypes |-> l] : l \in TypeLists}
NullState == [kind |-> "null", cvTypes |-> <<>>]

TypeIds(remote) == {remote.cvTypes[i].id : i \in 1..Len(remote.cvTypes)}

\* ------------------------------------------------------------- draft maps
HasDraft(m, id) == \E i \in 1..Len(m) : m[i].cvTypeId = id
DraftOf(m, id) == m[CHOOSE i \in 1..Len(m) : m[i].cvTypeId = id]
DraftIds(m) == {m[i].cvTypeId : i \in 1..Len(m)}

\* A Draft Store that queues every edit.
PutDraftQueues(m, d) == Append(m, d)

\* A Draft Store that keeps the first draft of an entity.
PutDraftKeepsFirst(m, d) ==
    IF HasDraft(m, d.cvTypeId) THEN m ELSE Append(m, d)

\* drafts[cvTypeId] = {...}: an existing key keeps its place, a new key is
\* appended.
PutDraft(m, d) ==
    IF HasDraft(m, d.cvTypeId)
    THEN [i \in 1..Len(m) |-> IF m[i].cvTypeId = d.cvTypeId THEN d ELSE m[i]]
    ELSE Append(m, d)

\* delete drafts[cvTypeId]
DeleteDraft(m, id) == SelectSeq(m, LAMBDA d : d.cvTypeId # id)

MakeDraft(id, data, now, base) ==
    [cvTypeId |-> id, data |-> data, localUpdatedAtMs |-> now,
     baseRemoteUpdatedAt |-> base, dirty |-> TRUE]

hasPendingDrafts(m) == Len(m) > 0

\* normalizeDraftMap: keeps the dirty entries; a falsy localUpdatedAtMs is
\* replaced by the current time.
normalizeDraftMap(candidate, now) ==
    LET kept == SelectSeq(candidate, LAMBDA d : d.dirty)
    IN  [i \in 1..Len(kept) |->
            [kept[i] EXCEPT !.localUpdatedAtMs =
                IF kept[i].localUpdatedAtMs = 0 THEN now ELSE @]]

\* A pruning that takes a state without a cvTypes list for an empty list.
pruneDraftsAgainstRemoteStrict(draftMap, remoteState) ==
    IF remoteState.kind # "list"
    THEN <<>>
    ELSE SelectSeq(draftMap, LAMBDA d : d.cvTypeId \in TypeIds(remoteState))

pruneDraftsAgainstRemote(draftMap, remoteState) ==
    IF remoteState.kind # "list"
    THEN draftMap
    ELSE SelectSeq(draftMap, LAMBDA d : d.cvTypeId \in TypeIds(remoteState))

\* A merge that shows the remote data only.
applyDraftsToRemoteStateRemoteOnly(remoteState, draftMap) ==
    remoteState

applyDraftsToRemoteState(remoteState, draftMap) ==
    IF remoteState.kind # "list"
    THEN remoteState
    ELSE [remoteState EXCEPT !.cvTypes =
            [i \in 1..Len(remoteState.cvTypes) |->
                IF HasDraft(draftMap, remoteState.cvTypes[i].id)
                THEN [remoteState.cvTypes[i] EXCEPT
                        !.data = DraftOf(draftMap, remoteState.cvTypes[i].id).data]
                ELSE remoteState.cvTypes[i]]]

\* Object.values(drafts).sort((a, b) => a.localUpdatedAtMs - b.localUpdatedAtMs)
\* Array.prototype.sort is stable.
RECURSIVE InsertByTime(_, _)
InsertByTime(s, d) ==
    IF s = <<>> THEN <<d>>
    ELSE IF s[1].localUpdatedAtMs <= d.localUpdatedAtMs
         THEN <<s[1]>> \o InsertByTime(Tail(s), d)
         ELSE <<d>> \o s

\* A pass that takes the drafts in the order of the Draft Store.
SortEntriesUnsorted(m) == m

RECURSIVE SortEntries(_)
SortEntries(m) ==
    IF m = <<>> THEN <<>>
    ELSE InsertByTime(SortEntries(SubSeq(m, 1, Len(m) - 1)), m[Len(m)])

\* ------------------------------------------------------------------ state
VARIABLES
    drafts,             \* the Draft Store
    status,             \* saved | pending | saving | error
    idleTimer,          \* the idle-flush timer is armed
    localPersistTimer,  \* the local-persist timer is armed
    flushing,
    needsTrailingFlush,
    destroyed,
    storage,            \* what the storage area durably holds
    fl,                 \* the flush() calls in progress: a bag of call records
    rs,                 \* the restoreDrafts() call
    returned,           \* what the call that settled in the last step returned
    edits,              \* scheduleTypeSave calls made so far
    instances,          \* controllers created after the first one
    onStatus,           \* the values passed to onStatus in the last step
    onState,            \* the sources of the onState calls of the last step
    armed,              \* how many timeouts of each kind the page has pending
    drive,              \* the Drive state file, the repository and the router
    lifecycle           \* the listeners registerLifecycleFlush has attached

\* The variables of the editor page.
pageVars == <<drafts, status, idleTimer, localPersistTimer, flushing,
              needsTrailingFlush, destroyed, storage, fl, rs, returned, edits,
              instances, onStatus, onState, armed>>
vars == <<pageVars, drive, lifecycle>>

\* Version stamps (updatedAt): nowIso() values in the order they are taken;
\* NoStamp is the empty string.
NoStamp == 0
Stamps == 1..MaxStamp
\* A state document, reduced to its stamp and the data of the one CV type.
NoState == [updatedAt |-> NoStamp, data |-> 0]
FirstFile == [updatedAt |-> 1, data |-> 1]

\* The events registerLifecycleFlush listens to, the values of
\* document.visibilityState, and what a call of onFlush does.
LifecycleEvents == {"visibilitychange", "pagehide", "beforeunload"}
VisibilityStates == {"visible", "hidden", "prerender"}
Outcomes == {"resolves", "rejects", "throws"}

NoResult == [call |-> "none", kind |-> "none", ok |-> FALSE,
             status |-> "saved", merged |-> NullState]

\* A flush() call: where it is suspended (pc), the entries left in the pass
\* it drains, recoveredConflict of the syncEntry it runs, whether
\* the storage write it awaits succeeds (stored), and what an observer of the
\* call has seen: the commands sent for the current entry (cmds), the number
\* of onError calls (errs), whether scheduleTypeSave was called for the entry
\* since its syncEntry began (raced), whether flush() was called while a
\* command that is still outstanding was outstanding (during), and whether
\* the call began with no other flush() in progress and the client has called
\* none of scheduleTypeSave, absorbRemoteState, flush and restoreDrafts since
\* (solo).
IdleCall == [pc |-> "idle", entries |-> <<>>,
             recoveredConflict |-> FALSE, cmds |-> <<>>, raced |-> FALSE,
             errs |-> 0, stored |-> TRUE, during |-> FALSE, solo |-> FALSE]

IdleRestore == [pc |-> "idle", remote |-> NullState, loaded |-> <<>>,
                merged |-> NullState, stored |-> TRUE, n |-> 0]

Init ==
    /\ drafts = <<>>
    /\ status = "saved"
    /\ idleTimer = FALSE
    /\ localPersistTimer = FALSE
    /\ flushing = FALSE
    /\ needsTrailingFlush = FALSE
    /\ destroyed = FALSE
    /\ storage = [drafts |-> <<>>, status |-> "none"]
    /\ fl = EmptyBag
    /\ rs = IdleRestore
    /\ returned = NoResult
    /\ edits = 0
    /\ instances = 0
    /\ onStatus = <<>>
    /\ onState = <<>>
    /\ armed = [idle |-> 0, persist |-> 0]
    /\ drive = [file |-> FirstFile, stateFileId |-> "",
                lastKnownUpdatedAt |-> NoStamp, cachedState |-> NoState,
                clock |-> FirstFile.updatedAt, response |-> "none"]
    /\ lifecycle = [listeners |-> LifecycleEvents,
                    visibilityState |-> "visible", dispatched |-> 0,
                    onFlush |-> <<>>, outcome |-> "none",
                    thrown |-> FALSE, unhandled |-> FALSE]

\* ------------------------------------------------------------ persistence
\* persistDrafts: the value written is computed when the call is made
\* (normalizeDraftMap runs before the first await).  ok: the storage area
\* accepts the write; a failed set leaves the stored value as it was.
persistDrafts(draftMap, st, ok, now) ==
    storage' = IF ok
               THEN [drafts |-> normalizeDraftMap(draftMap, now), status |-> st]
               ELSE storage

\* loadDraftsFromStorage: a failed get loads {}.
loadDraftsFromStorage(ok, now) ==
    IF ok THEN normalizeDraftMap(storage.drafts, now) ELSE <<>>

\* What a flush() call settles with.
Resolved(st) ==
    [NoResult EXCEPT !.call = "flush", !.kind = "resolved",
                     !.ok = (st # "error"), !.status = st]
Rejected(st) ==
    [NoResult EXCEPT !.call = "flush", !.kind = "rejected", !.status = st]
Destroyed(st) ==
    [NoResult EXCEPT !.call = "flush", !.kind = "destroyed", !.status = st]
\* The promise of a persistDrafts() call that nothing awaits has rejected.
PersistRejected ==
    [NoResult EXCEPT !.call = "persistDrafts", !.kind = "rejected"]
\* What a restoreDrafts() call settles with.
Restored(merged, stored, st) ==
    [NoResult EXCEPT !.call = "restoreDrafts",
                     !.kind = IF stored THEN "resolved" ELSE "rejected",
                     !.status = st, !.merged = merged]

\* The flush() calls in progress.  A call that settles leaves the bag.
Calls == BagToSet(fl)
Settle(c) == fl (-) SetToBag({c})
Step(c, d) == (fl (-) SetToBag({c})) (+) SetToBag({d})

\* A write or a reload of flush call c is outstanding.
Outstanding(c) == c.pc \in {"send", "load"}

\* What an observer of call c notes when scheduleTypeSave(cvTypeId, ...) is
\* called (ev = "edit"), when the client makes another call (ev = "call") and
\* when a remote command completes (ev = "response").
Observe(c, ev, cvTypeId) ==
    IF ev = "edit"
    THEN [c EXCEPT !.solo = FALSE,
                   !.raced = IF /\ Outstanding(c)
                                /\ Head(c.entries).cvTypeId = cvTypeId
                             THEN TRUE ELSE @]
    ELSE IF ev = "call"
    THEN [c EXCEPT !.solo = FALSE]
    ELSE [c EXCEPT !.during = FALSE]

RECURSIVE Mark(_, _, _)
Mark(b, ev, cvTypeId) ==
    IF b = EmptyBag THEN EmptyBag
    ELSE LET c == CHOOSE x \in BagToSet(b) : TRUE
             rest == [x \in (DOMAIN b) \ {c} |-> b[x]]
         IN  Mark(rest, ev, cvTypeId)
                 (+) [x \in {Observe(c, ev, cvTypeId)} |-> b[c]]

\* Call c goes on as d when the remote command it awaited has completed.
Respond(c, d) == Mark(Step(c, d), "response", "")

\* A remote command of some flush call is outstanding.
DrainActive == \E c \in Calls : Outstanding(c)

\* ------------------------------------------------------------------ edits
\* A scheduleTypeSave that does not report pending.
scheduleTypeSaveKeepsStatus(cvTypeId, data, base, now) ==
    /\ edits < MaxEdits
    /\ edits' = edits + 1
    /\ UNCHANGED instances
    /\ IF cvTypeId = ""
       THEN UNCHANGED <<drafts, idleTimer, localPersistTimer,
                        needsTrailingFlush, fl>>
       ELSE /\ drafts' = PutDraft(drafts, MakeDraft(cvTypeId, data, now, base))
            /\ localPersistTimer' = TRUE
            /\ idleTimer' = TRUE
            /\ needsTrailingFlush' = (flushing \/ needsTrailingFlush)
            /\ fl' = Mark(fl, "edit", cvTypeId)
    /\ returned' = NoResult
    /\ UNCHANGED <<status, flushing, destroyed, storage, rs>>

scheduleTypeSave(cvTypeId, data, base, now) ==
    /\ edits < MaxEdits
    /\ edits' = edits + 1
    /\ UNCHANGED instances
    /\ IF cvTypeId = ""
       THEN UNCHANGED <<drafts, status, idleTimer, localPersistTimer,
                        needsTrailingFlush, fl>>
       ELSE /\ drafts' = PutDraft(drafts, MakeDraft(cvTypeId, data, now, base))
            /\ status' = "pending"
            /\ localPersistTimer' = TRUE
            /\ idleTimer' = TRUE
            /\ needsTrailingFlush' = (flushing \/ needsTrailingFlush)
            /\ fl' = Mark(fl, "edit", cvTypeId)
    /\ returned' = NoResult
    /\ UNCHANGED <<flushing, destroyed, storage, rs>>

\* An absorbRemoteState that reports saved whenever no flush is running.
absorbRemoteStateSetsSaved(remoteState) ==
    /\ UNCHANGED <<edits, instances>>
    /\ drafts' = pruneDraftsAgainstRemote(drafts, remoteState)
    /\ status' = IF ~flushing THEN "saved" ELSE status
    /\ fl' = Mark(fl, "call", "")
    /\ returned' = NoResult
    /\ UNCHANGED <<idleTimer, localPersistTimer, flushing,
                   needsTrailingFlush, destroyed, storage, rs>>

absorbRemoteState(remoteState) ==
    /\ UNCHANGED <<edits, instances>>
    /\ LET pruned == pruneDraftsAgainstRemote(drafts, remoteState)
       IN  /\ drafts' = pruned
           /\ status' = IF ~hasPendingDrafts(pruned) /\ ~flushing
                        THEN "saved" ELSE status
    /\ fl' = Mark(fl, "call", "")
    /\ returned' = NoResult
    /\ UNCHANGED <<idleTimer, localPersistTimer, flushing,
                   needsTrailingFlush, destroyed, storage, rs>>

\* A schedule function without the clearTimeout of the armed timer.
scheduleKeepsOld(n, handle) == n + 1

\* scheduleIdleFlush, scheduleLocalPersist: n timeouts of the kind are
\* pending; the one the handle names, if it is armed, is cleared and a new
\* one is set.
schedule(n, handle) == (IF handle THEN n - 1 ELSE n) + 1

\* The timeouts of one kind after a step: set tells that the step calls the
\* schedule function; otherwise the timeout the handle named is gone when it
\* has fired or has been cleared.
After(n, handle, handleAfter, set) ==
    IF set THEN schedule(n, handle)
    ELSE IF handle /\ ~handleAfter THEN n - 1 ELSE n
Timeouts(setIdle, setPersist) ==
    armed' = [idle |-> After(armed.idle, idleTimer, idleTimer', setIdle),
              persist |-> After(armed.persist, localPersistTimer,
                                localPersistTimer', setPersist)]

destroy ==
    /\ UNCHANGED <<edits, instances>>
    /\ destroyed' = TRUE
    /\ idleTimer' = FALSE
    /\ localPersistTimer' = FALSE
    /\ returned' = NoResult
    /\ onStatus' = <<>>
    /\ onState' = <<>>
    /\ Timeouts(FALSE, FALSE)
    /\ UNCHANGED <<drafts, status, flushing, needsTrailingFlush, storage, fl,
                   rs, drive, lifecycle>>

\* ------------------------------------------------------------------ flush
\* flush(reason) up to its first await.  The reason is handed on to
\* sendCommand as syncReason and decides nothing in the controller.
StartFlush(reason, ok, now) ==
    /\ BagCardinality(fl) < MaxFlushCalls
    /\ IF destroyed
       THEN /\ returned' = Destroyed(status)
            /\ UNCHANGED <<storage, fl>>
       ELSE /\ persistDrafts(drafts, status, ok, now)
            /\ fl' = Mark(fl, "call", "")
                        (+) SetToBag({[IdleCall EXCEPT
                                !.pc = "persist", !.stored = ok,
                                !.during = DrainActive,
                                !.solo = (fl = EmptyBag)]})
            /\ returned' = NoResult
    /\ UNCHANGED <<drafts, status, localPersistTimer, flushing,
                   needsTrailingFlush, destroyed, rs, edits, instances>>

\* A flush that leaves the idle timer armed.
flushKeepsTimer(reason, ok, now) ==
    /\ StartFlush(reason, ok, now)
    /\ UNCHANGED idleTimer

flush(reason, ok, now) ==
    /\ StartFlush(reason, ok, now)
    /\ idleTimer' = IF destroyed THEN idleTimer ELSE FALSE

\* The lifecycle hook of the editor: flush(reason) when drafts are pending.
LifecycleFlush(ok, now) ==
    /\ hasPendingDrafts(drafts)
    /\ flush("pagehide", ok, now)

\* The callback of scheduleIdleFlush: void flush('idle').  The timer that
\* has fired is no longer armed.
IdleTimerFires(ok, now) ==
    /\ idleTimer
    /\ StartFlush("idle", ok, now)
    /\ idleTimer' = FALSE

\* The callback of scheduleLocalPersist: void persistDrafts(...).  Nothing
\* awaits the promise, which rejects when the storage write fails.
PersistTimerFires(ok, now) ==
    /\ localPersistTimer
    /\ localPersistTimer' = FALSE
    /\ persistDrafts(drafts, status, ok, now)
    /\ returned' = IF ok THEN NoResult ELSE PersistRejected
    /\ UNCHANGED <<drafts, status, idleTimer, flushing, needsTrailingFlush,
                   destroyed, fl, rs, edits, instances>>

\* syncEntry up to its await: CV_UPDATE_TYPE for the head of the entries.
SendEntry(call, entries) ==
    [call EXCEPT !.pc = "send", !.entries = entries,
                 !.recoveredConflict = FALSE,
                 !.cmds = <<"CV_UPDATE_TYPE">>, !.raced = FALSE]

\* A finally block that clears the flag and writes nothing.
FinishFlushNoPersist(s, d, st, errs, ok, now) ==
    /\ drafts' = d
    /\ status' = st
    /\ flushing' = FALSE
    /\ UNCHANGED storage
    /\ fl' = Respond(s, [s EXCEPT !.pc = "persistFinal", !.entries = <<>>,
                                  !.errs = s.errs + errs, !.stored = ok])

\* A finally block that leaves the flushing flag set.
FinishFlushKeepsFlag(s, d, st, errs, ok, now) ==
    /\ drafts' = d
    /\ status' = st
    /\ UNCHANGED flushing
    /\ persistDrafts(d, st, ok, now)
    /\ fl' = Respond(s, [s EXCEPT !.pc = "persistFinal", !.entries = <<>>,
                                  !.errs = s.errs + errs, !.stored = ok])

\* The end of performFlush (the finally block) up to its await; d and st are
\* the Draft Store and the status the try or catch block left.
FinishFlush(s, d, st, errs, ok, now) ==
    /\ drafts' = d
    /\ status' = st
    /\ flushing' = FALSE
    /\ persistDrafts(d, st, ok, now)
    /\ fl' = Respond(s, [s EXCEPT !.pc = "persistFinal", !.entries = <<>>,
                                  !.errs = s.errs + errs, !.stored = ok])

\* A catch block that arms the idle timer for a retry.
FailFlushRearms(s, ok, now) ==
    /\ FinishFlush(s, drafts, "error", 1, ok, now)
    /\ returned' = NoResult
    /\ idleTimer' = TRUE
    /\ UNCHANGED <<localPersistTimer, needsTrailingFlush,
                   destroyed, rs, edits, instances>>

\* A catch block that reports the failure and leaves the status pending.
FailFlushPending(s, ok, now) ==
    /\ FinishFlush(s, drafts, "pending", 1, ok, now)
    /\ returned' = NoResult
    /\ UNCHANGED <<idleTimer, localPersistTimer, needsTrailingFlush,
                   destroyed, rs, edits, instances>>

\* The catch block of performFlush: setStatus('error'); onError(error).
FailFlush(s, ok, now) ==
    /\ FinishFlush(s, drafts, "error", 1, ok, now)
    /\ returned' = NoResult
    /\ UNCHANGED <<idleTimer, localPersistTimer, needsTrailingFlush,
                   destroyed, rs, edits, instances>>

\* A loop that leaves after its first pass, whatever was requested.
ContinueDrainOnePass(s, d, st, nt, rest, ok, now) ==
    IF rest # <<>>
    THEN /\ drafts' = d
         /\ status' = st
         /\ needsTrailingFlush' = nt
         /\ fl' = Respond(s, SendEntry(s, rest))
         /\ UNCHANGED <<flushing, storage>>
    ELSE /\ needsTrailingFlush' = FALSE
         /\ FinishFlush(s, d, IF hasPendingDrafts(d) THEN "pending" ELSE "saved",
                        0, ok, now)

\* The loops of syncDirtyDrafts and performFlush after an entry was synced:
\* the next entry, else one more pass when a trailing pass was requested,
\* else the end of the drain.  d, st, nt are the values syncEntry left.
ContinueDrain(s, d, st, nt, rest, ok, now) ==
    IF rest # <<>>
    THEN /\ drafts' = d
         /\ status' = st
         /\ needsTrailingFlush' = nt
         /\ fl' = Respond(s, SendEntry(s, rest))
         /\ UNCHANGED <<flushing, storage>>
    ELSE IF nt /\ SortEntries(d) # <<>>
    THEN /\ drafts' = d
         /\ status' = st
         /\ needsTrailingFlush' = FALSE
         /\ fl' = Respond(s, SendEntry(s, SortEntries(d)))
         /\ UNCHANGED <<flushing, storage>>
    ELSE /\ needsTrailingFlush' = FALSE
         /\ FinishFlush(s, d, IF hasPendingDrafts(d) THEN "pending" ELSE "saved",
                        0, ok, now)

\* A performFlush that sets the status to saved whenever nothing is pending.
performFlushClearsError(s) ==
    IF flushing
    THEN /\ needsTrailingFlush' = TRUE
         /\ fl' = Settle(s)
         /\ returned' = Resolved(status)
         /\ UNCHANGED <<drafts, status, flushing>>
    ELSE IF ~hasPendingDrafts(drafts)
    THEN /\ status' = "saved"
         /\ fl' = Settle(s)
         /\ returned' = Resolved(status')
         /\ UNCHANGED <<drafts, flushing, needsTrailingFlush>>
    ELSE /\ flushing' = TRUE
         /\ status' = "saving"
         /\ needsTrailingFlush' = FALSE
         /\ fl' = Step(s, SendEntry(s, SortEntries(drafts)))
         /\ returned' = NoResult
         /\ UNCHANGED drafts

\* A performFlush that starts its pass without reporting saving.
performFlushSkipsSaving(s) ==
    IF flushing
    THEN /\ needsTrailingFlush' = TRUE
         /\ fl' = Settle(s)
         /\ returned' = Resolved(status)
         /\ UNCHANGED <<drafts, status, flushing>>
    ELSE IF ~hasPendingDrafts(drafts)
    THEN /\ status' = IF status = "error" THEN "error" ELSE "saved"
         /\ fl' = Settle(s)
         /\ returned' = Resolved(status')
         /\ UNCHANGED <<drafts, flushing, needsTrailingFlush>>
    ELSE /\ flushing' = TRUE
         /\ needsTrailingFlush' = FALSE
         /\ fl' = Step(s, SendEntry(s, SortEntries(drafts)))
         /\ returned' = NoResult
         /\ UNCHANGED <<drafts, status>>

\* A performFlush without the reentrancy test.
performFlushReentrant(s) ==
    IF ~hasPendingDrafts(drafts)
    THEN /\ status' = IF status # "error" THEN "saved" ELSE status
         /\ fl' = Settle(s)
         /\ returned' = Resolved(status')
         /\ UNCHANGED <<drafts, flushing, needsTrailingFlush>>
    ELSE /\ flushing' = TRUE
         /\ status' = "saving"
         /\ needsTrailingFlush' = FALSE
         /\ fl' = Step(s, SendEntry(s, SortEntries(drafts)))
         /\ returned' = NoResult
         /\ UNCHANGED drafts

\* performFlush up to its first await, entered when the persistDrafts that
\* flush awaited has completed.  When it returns at once, so does flush.
performFlush(s) ==
    IF flushing
    THEN /\ needsTrailingFlush' = TRUE
         /\ fl' = Settle(s)
         /\ returned' = Resolved(status)
         /\ UNCHANGED <<drafts, status, flushing>>
    ELSE IF ~hasPendingDrafts(drafts)
    THEN /\ status' = IF status # "error" THEN "saved" ELSE status
         /\ fl' = Settle(s)
         /\ returned' = Resolved(status')
         /\ UNCHANGED <<drafts, flushing, needsTrailingFlush>>
    ELSE /\ flushing' = TRUE
         /\ status' = "saving"
         /\ needsTrailingFlush' = FALSE
         /\ fl' = Step(s, SendEntry(s, SortEntries(drafts)))
         /\ returned' = NoResult
         /\ UNCHANGED drafts

\* The persistDrafts awaited by flush before performFlush has settled:
\* flush goes on into performFlush, or rejects when the write failed.
FlushPersistCompletes(s) ==
    /\ s.pc = "persist"
    /\ IF s.stored
       THEN performFlush(s)
       ELSE /\ fl' = Settle(s)
            /\ returned' = Rejected(status)
            /\ UNCHANGED <<drafts, status, flushing, needsTrailingFlush>>
    /\ UNCHANGED <<idleTimer, localPersistTimer, destroyed, storage, rs,
                   edits, instances>>

\* The persistDrafts of the finally block has settled: flush returns
\* { ok: getStatus() !== 'error', status: getStatus() }, or rejects.
FinalPersistCompletes(s) ==
    /\ s.pc = "persistFinal"
    /\ fl' = Settle(s)
    /\ returned' = IF s.stored THEN Resolved(status)
                   ELSE Rejected(status)
    /\ UNCHANGED <<drafts, status, idleTimer, localPersistTimer, flushing,
                   needsTrailingFlush, destroyed, storage, rs, edits,
                   instances>>

\* ------------------------------------------------------ remote responses
\* CV_UPDATE_TYPE of flush call s resolves with response.state = resp.
WriteSucceeds(s, resp, ok, now) ==
    /\ s.pc = "send"
    /\ LET entry == Head(s.entries)
           newer == /\ HasDraft(drafts, entry.cvTypeId)
                    /\ DraftOf(drafts, entry.cvTypeId).localUpdatedAtMs
                          > entry.localUpdatedAtMs
           kept == IF newer THEN drafts ELSE DeleteDraft(drafts, entry.cvTypeId)
           nt == (newer \/ needsTrailingFlush)
           \* if (response?.state) absorbRemoteState(response.state)
           d == IF resp.kind = "null" THEN kept
                ELSE pruneDraftsAgainstRemote(kept, resp)
           st == IF resp.kind # "null" /\ ~hasPendingDrafts(d) /\ ~flushing
                 THEN "saved" ELSE status
       IN  ContinueDrain(s, d, st, nt, Tail(s.entries), ok, now)
    /\ returned' = NoResult
    /\ UNCHANGED <<idleTimer, localPersistTimer, destroyed, rs, edits,
                   instances>>

\* A conflict recovery that resends the write without reloading.
WriteFailsResendsAtOnce(s, code, ok, now) ==
    /\ s.pc = "send"
    /\ IF code = "STATE_CONFLICT" /\ ~s.recoveredConflict
       THEN /\ fl' = Respond(s, [s EXCEPT !.recoveredConflict = TRUE,
                                          !.cmds = Append(@, "CV_UPDATE_TYPE")])
            /\ returned' = NoResult
            /\ UNCHANGED <<drafts, status, idleTimer, localPersistTimer,
                           flushing, needsTrailingFlush, destroyed, storage,
                           rs, edits, instances>>
       ELSE FailFlush(s, ok, now)

\* CV_UPDATE_TYPE of flush call s rejects with error.code = code.
WriteFails(s, code, ok, now) ==
    /\ s.pc = "send"
    /\ IF code = "STATE_CONFLICT" /\ ~s.recoveredConflict
       THEN /\ fl' = Respond(s, [s EXCEPT !.pc = "load",
                                       !.recoveredConflict = TRUE,
                                       !.cmds = Append(@, "STATE_LOAD")])
            /\ returned' = NoResult
            /\ UNCHANGED <<drafts, status, idleTimer, localPersistTimer,
                           flushing, needsTrailingFlush, destroyed, storage,
                           rs, edits, instances>>
       ELSE FailFlush(s, ok, now)

\* A reload that forgets that the conflict was recovered once.
ReloadSucceedsForgets(s, resp) ==
    /\ s.pc = "load"
    /\ fl' = Respond(s, [s EXCEPT !.pc = "send", !.recoveredConflict = FALSE,
                                  !.cmds = Append(@, "CV_UPDATE_TYPE")])
    /\ returned' = NoResult
    /\ UNCHANGED <<drafts, status, idleTimer, localPersistTimer, flushing,
                   needsTrailingFlush, destroyed, storage, rs, edits,
                   instances>>

\* STATE_LOAD of flush call s resolves: the write is sent once more.
ReloadSucceeds(s, resp) ==
    /\ s.pc = "load"
    /\ fl' = Respond(s, [s EXCEPT !.pc = "send",
                                  !.cmds = Append(@, "CV_UPDATE_TYPE")])
    /\ returned' = NoResult
    /\ UNCHANGED <<drafts, status, idleTimer, localPersistTimer, flushing,
                   needsTrailingFlush, destroyed, storage, rs, edits,
                   instances>>

\* STATE_LOAD of flush call s rejects: the error leaves syncEntry.
ReloadFails(s, ok, now) ==
    /\ s.pc = "load"
    /\ FailFlush(s, ok, now)

\* ---------------------------------------------------------------- restore
\* restoreDrafts(remoteState) up to its first await (the storageGet).
restoreDrafts(remoteState, ok, now) ==
    /\ UNCHANGED <<edits, instances>>
    /\ rs.pc = "idle"
    /\ rs.n < MaxRestores
    /\ rs' = [IdleRestore EXCEPT !.pc = "get", !.remote = remoteState,
                                 !.loaded = loadDraftsFromStorage(ok, now),
                                 !.n = rs.n + 1]
    /\ fl' = Mark(fl, "call", "")
    /\ returned' = NoResult
    /\ UNCHANGED <<drafts, status, idleTimer, localPersistTimer, flushing,
                   needsTrailingFlush, destroyed, storage>>

\* A restoreDrafts that does not call scheduleIdleFlush.
RestoreLoadCompletesUnarmed(ok, now) ==
    /\ rs.pc = "get"
    /\ LET pruned == pruneDraftsAgainstRemote(rs.loaded, rs.remote)
           st == IF hasPendingDrafts(pruned) THEN "pending" ELSE "saved"
       IN  /\ drafts' = pruned
           /\ status' = st
           /\ idleTimer' = idleTimer
           /\ persistDrafts(pruned, st, ok, now)
           /\ rs' = [rs EXCEPT !.pc = "set", !.loaded = <<>>, !.stored = ok,
                        !.merged = applyDraftsToRemoteState(rs.remote, pruned)]
    /\ fl' = Mark(fl, "call", "")
    /\ returned' = NoResult
    /\ UNCHANGED <<localPersistTimer, flushing, needsTrailingFlush,
                   destroyed, edits, instances>>

\* The storageGet has settled: prune, merge, status, idle timer, and the
\* persistDrafts that restoreDrafts awaits next.
RestoreLoadCompletes(ok, now) ==
    /\ rs.pc = "get"
    /\ LET pruned == pruneDraftsAgainstRemote(rs.loaded, rs.remote)
           st == IF hasPendingDrafts(pruned) THEN "pending" ELSE "saved"
       IN  /\ drafts' = pruned
           /\ status' = st
           /\ idleTimer' = (hasPendingDrafts(pruned) \/ idleTimer)
           /\ persistDrafts(pruned, st, ok, now)
           /\ rs' = [rs EXCEPT !.pc = "set", !.loaded = <<>>, !.stored = ok,
                        !.merged = applyDraftsToRemoteState(rs.remote, pruned)]
    /\ fl' = Mark(fl, "call", "")
    /\ returned' = NoResult
    /\ UNCHANGED <<localPersistTimer, flushing, needsTrailingFlush,
                   destroyed, edits, instances>>

\* The persistDrafts of restoreDrafts has settled: it returns merged, or
\* rejects.
RestorePersistCompletes ==
    /\ rs.pc = "set"
    /\ rs' = [IdleRestore EXCEPT !.n = rs.n]
    /\ returned' = Restored(rs.merged, rs.stored, status)
    /\ UNCHANGED <<drafts, status, idleTimer, localPersistTimer, flushing,
                   needsTrailingFlush, destroyed, storage, fl, edits,
                   instances, drive, lifecycle>>
    /\ onStatus' = <<>>
    /\ onState' = <<>>
    /\ Timeouts(FALSE, FALSE)

\* ------------------------------------------------------------ new instance
\* The editor page is loaded again: createSyncController builds a fresh
\* controller on the same storage area.
createSyncController ==
    /\ instances < MaxInstances
    /\ instances' = instances + 1
    /\ UNCHANGED edits
    /\ drafts' = <<>>
    /\ status' = "saved"
    /\ idleTimer' = FALSE
    /\ localPersistTimer' = FALSE
    /\ flushing' = FALSE
    /\ needsTrailingFlush' = FALSE
    /\ destroyed' = FALSE
    /\ fl' = EmptyBag
    /\ rs' = [IdleRestore EXCEPT !.n = rs.n]
    /\ returned' = NoResult
    /\ onStatus' = <<>>
    /\ onState' = <<>>
    /\ Timeouts(FALSE, FALSE)
    /\ UNCHANGED <<storage, drive, lifecycle>>

\* ------------------------------------------------------------------- spec
\* normalizeDraftMap reads the clock only when it meets a falsy
\* localUpdatedAtMs (the right operand of || is evaluated only then).
FallbackClock ==
    IF \E i \in 1..Len(drafts) : drafts[i].localUpdatedAtMs = 0
    THEN ClockValues ELSE {MaxClock}

\* The steps of the controller, for a storage area whose calls have the
\* outcomes Oks (TRUE: the call succeeds).
\* A setStatus without the test for an unchanged status.
setStatusAlways == onStatus' = <<status'>>

\* A response handler that hands every response to onState twice.
CarriedTwice(resp, source) == <<source, source>>

\* setStatus, seen from outside: onStatus is called with the new status in
\* the steps that change the status, and in no other step.
setStatus == onStatus' = IF status' # status THEN <<status'>> ELSE <<>>

\* The onState call made for a response: none when it carries no state.
Carried(resp, source) == IF resp.kind = "null" THEN <<>> ELSE <<source>>

Edit(Ids) ==
    /\ \E id \in Ids, data \in Payloads, base \in BaseVersions, now \in ClockValues :
          /\ scheduleTypeSave(id, data, base, now)
          /\ Timeouts(id # "", id # "")
    /\ setStatus
    /\ onState' = <<>>
    /\ UNCHANGED <<drive, lifecycle>>
Absorb ==
    /\ \E remote \in RemoteStates :
          absorbRemoteState(remote)
    /\ setStatus
    /\ Timeouts(FALSE, FALSE)
    /\ onState' = <<>>
    /\ UNCHANGED <<drive, lifecycle>>
Flush(Oks) ==
    /\ \E ok \in Oks, now \in FallbackClock :
          flush("manual", ok, now)
    /\ setStatus
    /\ Timeouts(FALSE, FALSE)
    /\ onState' = <<>>
    /\ UNCHANGED <<drive, lifecycle>>
Lifecycle(Oks) ==
    /\ \E ok \in Oks, now \in FallbackClock :
          LifecycleFlush(ok, now)
    /\ setStatus
    /\ Timeouts(FALSE, FALSE)
    /\ onState' = <<>>
    /\ UNCHANGED <<drive, lifecycle>>
IdleTimer(Oks) ==
    /\ \E ok \in Oks, now \in FallbackClock :
          IdleTimerFires(ok, now)
    /\ setStatus
    /\ Timeouts(FALSE, FALSE)
    /\ onState' = <<>>
    /\ UNCHANGED <<drive, lifecycle>>
PersistTimer(Oks) ==
    /\ \E ok \in Oks, now \in FallbackClock :
          PersistTimerFires(ok, now)
    /\ setStatus
    /\ Timeouts(FALSE, FALSE)
    /\ onState' = <<>>
    /\ UNCHANGED <<drive, lifecycle>>
FlushPersisted ==
    /\ \E s \in Calls :
          FlushPersistCompletes(s)
    /\ setStatus
    /\ Timeouts(FALSE, FALSE)
    /\ onState' = <<>>
    /\ UNCHANGED <<drive, lifecycle>>
FlushSettles ==
    /\ \E s \in Calls :
          FinalPersistCompletes(s)
    /\ setStatus
    /\ Timeouts(FALSE, FALSE)
    /\ onState' = <<>>
    /\ UNCHANGED <<drive, lifecycle>>
WriteResolves(Oks) ==
    /\ \E s \in Calls, resp \in RemoteStates, ok \in Oks, now \in FallbackClock :
          /\ WriteSucceeds(s, resp, ok, now)
          /\ onState' = Carried(resp, "sync")
    /\ setStatus
    /\ Timeouts(FALSE, FALSE)
    /\ UNCHANGED <<drive, lifecycle>>
WriteRejects(Oks) ==
    /\ \E s \in Calls, code \in ErrorCodes, ok \in Oks, now \in FallbackClock :
          WriteFails(s, code, ok, now)
    /\ setStatus
    /\ Timeouts(FALSE, FALSE)
    /\ onState' = <<>>
    /\ UNCHANGED <<drive, lifecycle>>
ReloadResolves ==
    /\ \E s \in Calls, resp \in RemoteStates :
          /\ ReloadSucceeds(s, resp)
          /\ onState' = Carried(resp, "conflict-reload")
    /\ setStatus
    /\ Timeouts(FALSE, FALSE)
    /\ UNCHANGED <<drive, lifecycle>>
ReloadRejects(Oks) ==
    /\ \E s \in Calls, ok \in Oks, now \in FallbackClock :
          ReloadFails(s, ok, now)
    /\ setStatus
    /\ Timeouts(FALSE, FALSE)
    /\ onState' = <<>>
    /\ UNCHANGED <<drive, lifecycle>>
Restore(Oks) ==
    /\ \E remote \in RemoteStates, ok \in Oks, now \in FallbackClock :
          restoreDrafts(remote, ok, now)
    /\ setStatus
    /\ Timeouts(FALSE, FALSE)
    /\ onState' = <<>>
    /\ UNCHANGED <<drive, lifecycle>>
RestoreLoaded(Oks) ==
    /\ \E ok \in Oks, now \in FallbackClock :
          RestoreLoadCompletes(ok, now)
    /\ setStatus
    /\ Timeouts(hasPendingDrafts(drafts'), FALSE)
    /\ onState' = <<>>
    /\ UNCHANGED <<drive, lifecycle>>

\* An editing session on one entity with a storage area that works.
Next ==
    \/ Edit({"t1", ""})
    \/ Absorb
    \/ destroy
    \/ Flush({TRUE})
    \/ Lifecycle({TRUE})
    \/ IdleTimer({TRUE})
    \/ PersistTimer({TRUE})
    \/ FlushPersisted
    \/ FlushSettles
    \/ WriteResolves({TRUE})
    \/ WriteRejects({TRUE})
    \/ ReloadResolves
    \/ ReloadRejects({TRUE})

Spec == Init /\ [][Next]_vars

\* The same sessions, in which every storage write settles and every remote
\* command is answered, with a result or with an error.
SpecSettles ==
    /\ Spec
    /\ WF_vars(FlushPersisted)
    /\ WF_vars(FlushSettles)
    /\ WF_vars(WriteResolves({TRUE}) \/ WriteRejects({TRUE}))
    /\ WF_vars(ReloadResolves \/ ReloadRejects({TRUE}))

\* The same sessions, in which the armed timers fire as well.
SpecTimersFire ==
    /\ SpecSettles
    /\ WF_vars(IdleTimer({TRUE}))
    /\ WF_vars(PersistTimer({TRUE}))

\* A write is rejected that was issued before an edit of its entity: a later
\* edit was made while it was outstanding.
EarlierWriteRejects ==
    /\ \E s \in Calls, code \in ErrorCodes, now \in FallbackClock :
          /\ s.raced
          /\ s.cmds = <<"CV_UPDATE_TYPE">>
          /\ WriteFails(s, code, TRUE, now)
    /\ setStatus
    /\ Timeouts(FALSE, FALSE)
    /\ onState' = <<>>
    /\ UNCHANGED <<drive, lifecycle>>

\* Sessions of a controller that is not destroyed, in which every write
\* issued after the last edit of its entity succeeds.
NextLastWritesSucceed ==
    \/ Edit({"t1", ""})
    \/ Absorb
    \/ Flush({TRUE})
    \/ IdleTimer({TRUE})
    \/ PersistTimer({TRUE})
    \/ FlushPersisted
    \/ FlushSettles
    \/ WriteResolves({TRUE})
    \/ EarlierWriteRejects
    \/ ReloadResolves

\* The armed timers fire, the storage writes settle and the remote commands
\* are answered.
SpecLastWritesSucceed ==
    /\ Init
    /\ [][NextLastWritesSucceed]_vars
    /\ WF_vars(IdleTimer({TRUE}))
    /\ WF_vars(PersistTimer({TRUE}))
    /\ WF_vars(FlushPersisted)
    /\ WF_vars(FlushSettles)
    /\ WF_vars(WriteResolves({TRUE}))
    /\ WF_vars(ReloadResolves)

\* Sessions in which the page is loaded again and the drafts are restored.
NextRestore ==
    \/ Edit({"t1"})
    \/ IdleTimer({TRUE})
    \/ PersistTimer({TRUE})
    \/ FlushPersisted
    \/ FlushSettles
    \/ WriteResolves({TRUE})
    \/ createSyncController
    \/ Restore({TRUE})
    \/ RestoreLoaded({TRUE})
    \/ RestorePersistCompletes

SpecRestore == Init /\ [][NextRestore]_vars

\* restoreDrafts is called while the Draft Store is empty, as the editor
\* does when the page starts.
RestoreAtStart ==
    /\ drafts = <<>>
    /\ Restore({TRUE})

\* Sessions in which the drafts are restored at the start of the page, and
\* edits are made at any time.
NextStartup ==
    \/ Edit({"t1"})
    \/ PersistTimer({TRUE})
    \/ createSyncController
    \/ RestoreAtStart
    \/ RestoreLoaded({TRUE})
    \/ RestorePersistCompletes

SpecStartup == Init /\ [][NextStartup]_vars

\* Editing sessions in which restoreDrafts is called at any time.
NextInterleaved ==
    \/ Edit({"t1"})
    \/ Absorb
    \/ Flush({TRUE})
    \/ IdleTimer({TRUE})
    \/ FlushPersisted
    \/ FlushSettles
    \/ WriteResolves({TRUE})
    \/ WriteRejects({TRUE})
    \/ ReloadResolves
    \/ ReloadRejects({TRUE})
    \/ Restore({TRUE})
    \/ RestoreLoaded({TRUE})
    \/ RestorePersistCompletes

SpecInterleaved == Init /\ [][NextInterleaved]_vars

\* The same sessions, in which an armed idle timer fires, a storage write
\* settles and the remote store answers every write.
SpecRestoreLive ==
    /\ SpecRestore
    /\ WF_vars(IdleTimer({TRUE}))
    /\ WF_vars(FlushPersisted)
    /\ WF_vars(FlushSettles)
    /\ WF_vars(WriteResolves({TRUE}))
    /\ WF_vars(RestoreLoaded({TRUE}))
    /\ WF_vars(RestorePersistCompletes)

\* An editing session on two entities.
NextTwo ==
    \/ Edit({"t1", "t2"})
    \/ Absorb
    \/ Flush({TRUE})
    \/ FlushPersisted
    \/ FlushSettles
    \/ WriteResolves({TRUE})
    \/ WriteRejects({TRUE})
    \/ ReloadResolves
    \/ ReloadRejects({TRUE})

SpecTwo == Init /\ [][NextTwo]_vars

\* Bursts of edits, between which the persist timer may fire.
NextBurst ==
    \/ Edit({"t1", "t2", ""})
    \/ PersistTimer({TRUE})

SpecBurst == Init /\ [][NextBurst]_vars

\* Sessions in which every flush is started by the idle timer, and in which
\* the storage area and the remote store may fail.
NextFaults ==
    \/ Edit({"t1"})
    \/ IdleTimer(BOOLEAN)
    \/ PersistTimer(BOOLEAN)
    \/ FlushPersisted
    \/ FlushSettles
    \/ WriteResolves(BOOLEAN)
    \/ WriteRejects(BOOLEAN)
    \/ ReloadResolves
    \/ ReloadRejects(BOOLEAN)

SpecFaults == Init /\ [][NextFaults]_vars

\* -------------------------------------------------------- lifecycle flush
\* registerLifecycleFlush has attached its three listeners when the editor
\* page was loaded.  lifecycle.listeners are the events still listened to,
\* lifecycle.dispatched counts the events dispatched; of the last event
\* dispatched, lifecycle.onFlush are the reasons onFlush was called with,
\* lifecycle.outcome is what onFlush did, lifecycle.thrown whether the
\* listener threw into the host, lifecycle.unhandled whether a rejected
\* promise was left with no handler.

\* An event is dispatched: nothing has been called yet.
Dispatched(l) ==
    [l EXCEPT !.dispatched = l.dispatched + 1, !.onFlush = <<>>,
              !.outcome = "none", !.thrown = FALSE, !.unhandled = FALSE]

\* A flushSafely with neither the try block nor the catch handler.
flushUnsafely(l, reason, outcome) ==
    [l EXCEPT !.onFlush = <<reason>>, !.outcome = outcome,
              !.thrown = (outcome = "throws"),
              !.unhandled = (outcome = "rejects")]

\* flushSafely: onFlush(reason) in a try block whose catch swallows what is
\* thrown; a promise it returns gets a catch handler that does nothing.
flushSafely(l, reason, outcome) ==
    [l EXCEPT !.onFlush = <<reason>>, !.outcome = outcome,
              !.thrown = FALSE, !.unhandled = FALSE]

\* A visibilitychange listener that does not look at the visibilityState.
onVisibilityChangeAlways(visibilityState, outcome) ==
    /\ lifecycle.dispatched < MaxEvents
    /\ LET l == [Dispatched(lifecycle) EXCEPT
                    !.visibilityState = visibilityState]
       IN  lifecycle' = IF "visibilitychange" \in l.listeners
                        THEN flushSafely(l, "visibilitychange", outcome)
                        ELSE l
    /\ UNCHANGED <<pageVars, drive>>

\* The document's visibilityState becomes visibilityState and a
\* visibilitychange event is dispatched.
onVisibilityChange(visibilityState, outcome) ==
    /\ lifecycle.dispatched < MaxEvents
    /\ LET l == [Dispatched(lifecycle) EXCEPT
                    !.visibilityState = visibilityState]
       IN  lifecycle' = IF /\ "visibilitychange" \in l.listeners
                           /\ l.visibilityState = "hidden"
                        THEN flushSafely(l, "visibilitychange", outcome)
                        ELSE l
    /\ UNCHANGED <<pageVars, drive>>

\* A pagehide event is dispatched.
onPageHide(outcome) ==
    /\ lifecycle.dispatched < MaxEvents
    /\ LET l == Dispatched(lifecycle)
       IN  lifecycle' = IF "pagehide" \in l.listeners
                        THEN flushSafely(l, "pagehide", outcome)
                        ELSE l
    /\ UNCHANGED <<pageVars, drive>>

\* A beforeunload event is dispatched.
onBeforeUnload(outcome) ==
    /\ lifecycle.dispatched < MaxEvents
    /\ LET l == Dispatched(lifecycle)
       IN  lifecycle' = IF "beforeunload" \in l.listeners
                        THEN flushSafely(l, "beforeunload", outcome)
                        ELSE l
    /\ UNCHANGED <<pageVars, drive>>

\* The function registerLifecycleFlush returned is called: every listener
\* is removed.
unregister ==
    /\ lifecycle.listeners # {}
    /\ lifecycle' = [lifecycle EXCEPT !.listeners = {}, !.onFlush = <<>>,
                                      !.outcome = "none"]
    /\ UNCHANGED <<pageVars, drive>>

VisibilityChanges ==
    \E v \in VisibilityStates, outcome \in Outcomes : onVisibilityChange(v, outcome)
PageHides == \E outcome \in Outcomes : onPageHide(outcome)
BeforeUnloads == \E outcome \in Outcomes : onBeforeUnload(outcome)

\* The lifecycle events of the page, and the teardown of the listeners.
NextLifecycle ==
    \/ VisibilityChanges
    \/ PageHides
    \/ BeforeUnloads
    \/ unregister

SpecLifecycle == Init /\ [][NextLifecycle]_vars

\* ----------------------------------------------------------- remote store
\* The background router and its DriveRepository, which hold the state file
\* in Drive appData.  drive.file is the file as Drive holds it,
\* drive.stateFileId and drive.lastKnownUpdatedAt are the repository's
\* fields, drive.cachedState is the router's, drive.clock is the last value
\* nowIso() returned, drive.response is the outcome of the last command.

\* DriveRepository.loadState, for a state file that exists and needs no
\* migration: the state it returns is d.file.
loadState(d) ==
    [d EXCEPT !.stateFileId = "state", !.lastKnownUpdatedAt = d.file.updatedAt]

\* getState of the router.
getState(d) ==
    IF d.cachedState = NoState
    THEN [loadState(d) EXCEPT !.cachedState = d.file]
    ELSE d

\* DriveRepository.saveState: the expected stamp is compared with the stamp
\* the repository remembers, then the file is overwritten.
saveState(d, nextState, expectedUpdatedAt) ==
    LET l == IF d.stateFileId = "" THEN loadState(d) ELSE d
    IN  IF /\ expectedUpdatedAt # NoStamp
           /\ l.lastKnownUpdatedAt # NoStamp
           /\ expectedUpdatedAt # l.lastKnownUpdatedAt
        THEN [l EXCEPT !.response = "STATE_CONFLICT"]
        ELSE [l EXCEPT !.file = [updatedAt |-> l.clock + 1,
                                 data |-> nextState.data],
                       !.lastKnownUpdatedAt = l.clock + 1,
                       !.clock = l.clock + 1,
                       !.response = "ok"]

\* persistState of the router.
persistState(d, nextState, expectedUpdatedAt) ==
    LET saved == saveState(d, nextState,
                           IF expectedUpdatedAt # NoStamp
                           THEN expectedUpdatedAt ELSE nextState.updatedAt)
    IN  IF saved.response = "ok"
        THEN [saved EXCEPT !.cachedState = saved.file]
        ELSE saved

\* case 'STATE_LOAD'.
STATE_LOAD ==
    /\ drive' = [getState(drive) EXCEPT !.response = "ok"]
    /\ UNCHANGED <<pageVars, lifecycle>>

\* case 'AUTH_SIGN_OUT'.
AUTH_SIGN_OUT ==
    /\ drive' = [drive EXCEPT !.cachedState = NoState, !.response = "ok"]
    /\ UNCHANGED <<pageVars, lifecycle>>

\* case 'STATE_SAVE': the caller sends a state with new data and the stamp
\* of the state it last read.
STATE_SAVE(data, expectedUpdatedAt) ==
    /\ drive.clock < MaxStamp
    /\ expectedUpdatedAt <= drive.clock
    /\ drive' = persistState(drive,
                             [updatedAt |-> expectedUpdatedAt, data |-> data],
                             expectedUpdatedAt)
    /\ UNCHANGED <<pageVars, lifecycle>>

\* case 'CV_UPDATE_TYPE': the payload holds the type and its data, no stamp;
\* the router changes its cached state and persists it under the stamp of
\* that state.
CV_UPDATE_TYPE(data) ==
    /\ drive.clock < MaxStamp
    /\ LET d == getState(drive)
           state == [d.cachedState EXCEPT !.data = data]
       IN  drive' = persistState([d EXCEPT !.cachedState = state], state,
                                 state.updatedAt)
    /\ UNCHANGED <<pageVars, lifecycle>>

\* Another device or browser profile overwrites the state file.
OtherWriter(data) ==
    /\ drive.clock < MaxStamp
    /\ drive' = [drive EXCEPT !.file = [updatedAt |-> drive.clock + 1,
                                        data |-> data],
                              !.clock = drive.clock + 1,
                              !.response = "none"]
    /\ UNCHANGED <<pageVars, lifecycle>>

StateSave == \E data \in Payloads, e \in Stamps : STATE_SAVE(data, e)
UpdateType == \E data \in Payloads : CV_UPDATE_TYPE(data)
OtherWrites == \E data \in Payloads : OtherWriter(data)

\* The commands the router serves while other writers change the file.
NextRemote ==
    \/ STATE_LOAD
    \/ AUTH_SIGN_OUT
    \/ StateSave
    \/ UpdateType
    \/ OtherWrites

SpecRemote == Init /\ [][NextRemote]_vars


\* ----------------------------------------------------------------- claims
\* The steps of a flush call s as the properties below name them.
WriteOk(s, resp) ==
    \E now \in FallbackClock, ok \in BOOLEAN : WriteSucceeds(s, resp, ok, now)
WriteRejected(s, code) ==
    \E now \in FallbackClock, ok \in BOOLEAN : WriteFails(s, code, ok, now)
ReloadRejected(s) ==
    \E now \in FallbackClock, ok \in BOOLEAN : ReloadFails(s, ok, now)
IdleTimerFired ==
    \E now \in FallbackClock, ok \in BOOLEAN : IdleTimerFires(ok, now)
Edited(cvTypeId, data) ==
    \E base \in BaseVersions, now \in ClockValues :
        scheduleTypeSave(cvTypeId, data, base, now)
RestoreLoadCompleted ==
    \E now \in FallbackClock, ok \in BOOLEAN : RestoreLoadCompletes(ok, now)

\* The entity whose syncEntry flush call s runs.
Entity(s) == Head(s.entries).cvTypeId
\* The response does not make absorbRemoteState prune the entity.
Lists(resp, cvTypeId) == resp.kind = "list" => cvTypeId \in TypeIds(resp)
\* A rejection that syncEntry does not recover from.
Unrecoverable(s, code) == code # "STATE_CONFLICT" \/ s.recoveredConflict
\* At most one remote command of the calls in bag b is outstanding.
AtMostOneOutstanding(b) ==
    \A c \in BagToSet(b) :
        Outstanding(c) =>
            /\ b[c] = 1
            /\ \A d \in BagToSet(b) : Outstanding(d) => d = c
NoneOutstanding(b) == \A c \in BagToSet(b) : ~Outstanding(c)
FirstWrite == <<"CV_UPDATE_TYPE">>
Recovered == <<"CV_UPDATE_TYPE", "STATE_LOAD", "CV_UPDATE_TYPE">>

\* C1: when the write of an entity succeeds and scheduleTypeSave was called
\* for that entity while the write was outstanding, the newer draft stays in
\* the Draft Store and a trailing pass follows, whatever the clock returned.
C1_EditedDraftSurvivesWrite ==
    [][\A s \in Calls, resp \in RemoteStates :
          (/\ WriteOk(s, resp)
           /\ s.cmds = FirstWrite
           /\ s.raced
           /\ HasDraft(drafts, Entity(s))
           /\ Lists(resp, Entity(s)))
              => /\ HasDraft(drafts', Entity(s))
                 /\ DraftOf(drafts', Entity(s)) = DraftOf(drafts, Entity(s))
                 /\ ~NoneOutstanding(fl')]_vars

\* C2: in every reachable state at most one remote command (CV_UPDATE_TYPE
\* or STATE_LOAD) is outstanding, and a command is outstanding only while the
\* one flush pass that set the flushing flag is active.
C2_SingleFlushPass ==
    /\ AtMostOneOutstanding(fl)
    /\ DrainActive => flushing

\* A flush() call has returned at once while the write of the running pass is
\* outstanding, and the trailing pass is requested.
C2_Witness ==
    /\ DrainActive
    /\ needsTrailingFlush
    /\ returned.kind = "resolved"
    /\ returned.ok

\* C3: when a write succeeds and scheduleTypeSave was called for its entity
\* while it was in flight, the same flush starts exactly one more pass, whose
\* write carries the payload of the last edit; when a write succeeds and no
\* edit raced with it, the Draft Store is empty and the status is saved.
C3_OneTrailingPassWithLastPayload ==
    [][\A s \in Calls, resp \in RemoteStates :
          /\ (/\ WriteOk(s, resp)
              /\ s.cmds = FirstWrite
              /\ s.raced
              /\ HasDraft(drafts, Entity(s))
              /\ Lists(resp, Entity(s)))
                 => /\ AtMostOneOutstanding(fl')
                    /\ ~needsTrailingFlush'
                    /\ \E d \in BagToSet(fl') :
                          /\ d.pc = "send"
                          /\ d.cmds = FirstWrite
                          /\ Len(d.entries) = 1
                          /\ Head(d.entries).cvTypeId = Entity(s)
                          /\ Head(d.entries).data = DraftOf(drafts, Entity(s)).data
          /\ (/\ WriteOk(s, resp)
              /\ s.cmds = FirstWrite
              /\ ~s.raced
              /\ Len(s.entries) = 1)
                 => /\ drafts' = <<>>
                    /\ status' = "saved"
                    /\ NoneOutstanding(fl')]_vars

\* C4: every scheduleTypeSave replaces the draft of the entity by the new
\* payload and leaves one idle timer armed; the timer that fires starts one
\* flush and is no longer armed; the pass that flush starts issues one
\* CV_UPDATE_TYPE per draft, carrying the draft as it is then; and when that
\* write succeeds with no edit in between, no further command is issued, the
\* status is saved and the persisted draft map is empty.
C4_IdleWindowCoalesces ==
    [][/\ \A cvTypeId \in Entities, data \in Payloads :
             Edited(cvTypeId, data)
                 => /\ idleTimer'
                    /\ DraftOf(drafts', cvTypeId).data = data
                    /\ Cardinality({i \in 1..Len(drafts') :
                                      drafts'[i].cvTypeId = cvTypeId}) = 1
       /\ (IdleTimerFired /\ ~destroyed)
             => /\ ~idleTimer'
                /\ BagCardinality(fl') = BagCardinality(fl) + 1
       /\ \A s \in Calls :
             (FlushPersistCompletes(s) /\ ~flushing /\ hasPendingDrafts(drafts))
                 => /\ AtMostOneOutstanding(fl')
                    /\ \E d \in BagToSet(fl') :
                          /\ d.pc = "send"
                          /\ d.cmds = FirstWrite
                          /\ Len(d.entries) = Len(drafts)
                          /\ \A i \in 1..Len(d.entries) :
                                d.entries[i]
                                    = DraftOf(drafts, d.entries[i].cvTypeId)
       /\ \A s \in Calls, resp \in RemoteStates :
             (/\ WriteOk(s, resp)
              /\ s.cmds = FirstWrite
              /\ ~s.raced
              /\ Len(s.entries) = 1)
                 => /\ NoneOutstanding(fl')
                    /\ status' = "saved"
                    /\ storage' = [drafts |-> <<>>, status |-> "saved"]]_vars

\* Two edits were made, one write was issued and has succeeded, nothing else
\* was called since the flush began: saved, nothing armed, nothing stored.
C4_Witness ==
    /\ edits >= 2
    /\ ~idleTimer
    /\ drafts = <<>>
    /\ status = "saved"
    /\ storage = [drafts |-> <<>>, status |-> "saved"]
    /\ \E s \in Calls :
          /\ s.pc = "persistFinal"
          /\ s.cmds = FirstWrite
          /\ s.solo
          /\ s.errs = 0

C6_ErrorKeepsDraft ==
    /\ [](status = "error" => hasPendingDrafts(drafts))
    /\ [][\A s \in Calls, code \in ErrorCodes :
             (\/ WriteRejected(s, code) /\ Unrecoverable(s, code)
              \/ ReloadRejected(s))
                 => /\ HasDraft(drafts', Entity(s))
                    /\ storage'.drafts = drafts']_vars

\* C7: a flush() call made while a remote command is outstanding does not
\* resolve with ok true while that command is still outstanding.
C7_OkMeansWritten ==
    [][\A s \in Calls :
          (/\ FlushPersistCompletes(s) \/ FinalPersistCompletes(s)
           /\ returned'.kind = "resolved"
           /\ returned'.ok)
              => ~s.during]_vars

C9_BoundedConflictRetry ==
    /\ [](\A c \in Calls :
             \E n \in 0..Len(Recovered) : c.cmds = SubSeq(Recovered, 1, n))
    /\ [][\A s \in Calls :
             (\/ WriteRejected(s, "STATE_CONFLICT") /\ s.recoveredConflict
              \/ ReloadRejected(s))
                 => /\ status' = "error"
                    /\ drafts' = drafts
                    /\ ~flushing'
                    /\ NoneOutstanding(fl')]_vars

\* The resend after the reload was rejected too: the flush has ended with
\* status error and the draft is still there.
C9_Witness ==
    /\ status = "error"
    /\ HasDraft(drafts, "t1")
    /\ ~flushing
    /\ \E s \in Calls :
          /\ s.pc = "persistFinal"
          /\ s.cmds = Recovered
          /\ s.errs = 1

\* C10: restoreDrafts(remote) on drafts read from the storage area: a draft
\* whose entity remote lists is in the Draft Store, the status is pending and
\* the merged view has the draft's data for it and the remote data for every
\* entity without a draft; a draft whose entity a cvTypes list does not hold
\* is discarded, and the status is saved when no draft remains; the call
\* returns the merged view.
C10_RestoreMergesAndPrunes ==
    [][/\ RestoreLoadCompleted
             => \A e \in Entities :
                   HasDraft(rs.loaded, e)
                       => IF rs.remote.kind = "list" /\ e \in TypeIds(rs.remote)
                          THEN /\ HasDraft(drafts', e)
                               /\ DraftOf(drafts', e) = DraftOf(rs.loaded, e)
                               /\ status' = "pending"
                               /\ rs'.merged.kind = "list"
                               /\ Len(rs'.merged.cvTypes) = Len(rs.remote.cvTypes)
                               /\ \A i \in 1..Len(rs.remote.cvTypes) :
                                     rs'.merged.cvTypes[i] =
                                        [id |-> rs.remote.cvTypes[i].id,
                                         data |->
                                            IF HasDraft(rs.loaded, rs.remote.cvTypes[i].id)
                                            THEN DraftOf(rs.loaded, rs.remote.cvTypes[i].id).data
                                            ELSE rs.remote.cvTypes[i].data]
                          ELSE rs.remote.kind = "list"
                                  => /\ ~HasDraft(drafts', e)
                                     /\ drafts' = <<>> => status' = "saved"
       /\ (rs.pc = "set" /\ RestorePersistCompletes)
             => /\ returned'.call = "restoreDrafts"
                /\ returned'.merged = rs.merged]_vars

\* A second controller has restored the draft the first one persisted: the
\* call has returned a merged view that shows the draft's payload.
C10_Witness ==
    /\ instances >= 1
    /\ returned.call = "restoreDrafts"
    /\ returned.kind = "resolved"
    /\ returned.merged.kind = "list"
    /\ \E i \in 1..Len(returned.merged.cvTypes) :
          /\ returned.merged.cvTypes[i].id = "t1"
          /\ returned.merged.cvTypes[i].data \in Payloads
    /\ HasDraft(drafts, "t1")
    /\ status = "pending"

\* The step ends the drain of a flush call.
DrainEnds == DrainActive /\ NoneOutstanding(fl')

\* C11: the step that ends a drain, by the last write succeeding or by a
\* failure, writes the Draft Store and the status it leaves to the storage
\* area (an empty map and saved, or the kept drafts and error or pending),
\* and the flush() call that ran the drain has not resolved yet: it awaits
\* that write.
C11_DrainEndsWithDurableWrite ==
    [][DrainEnds
          => /\ storage' = [drafts |-> drafts', status |-> status']
             /\ status' = IF \E s \in Calls, code \in ErrorCodes :
                                 WriteRejected(s, code) \/ ReloadRejected(s)
                          THEN "error"
                          ELSE IF drafts' = <<>> THEN "saved" ELSE "pending"
             /\ returned'.kind = "none"
             /\ BagCardinality(fl') = BagCardinality(fl)
             /\ \E d \in BagToSet(fl') : d.pc = "persistFinal"]_vars

\* A drain has failed: the storage area holds the kept draft and the status
\* error, and the flush() call has yet to resolve.
C11_Witness ==
    /\ storage = [drafts |-> drafts, status |-> "error"]
    /\ HasDraft(drafts, "t1")
    /\ BagCardinality(fl) = 1
    /\ \E s \in Calls : s.pc = "persistFinal" /\ s.errs = 1

\* C12: when the persistDrafts of a flush() call completes with the Draft
\* Store empty and the status saved or error, the call issues no remote
\* command, changes nothing of the controller and resolves with that status:
\* ok true for saved, ok false for error, however often it is repeated.
C12_EmptyFlushIsNoOp ==
    [][\A s \in Calls :
          (/\ FlushPersistCompletes(s)
           /\ ~hasPendingDrafts(drafts)
           /\ status \in {"saved", "error"})
              => /\ fl' = Settle(s)
                 /\ UNCHANGED <<drafts, status, idleTimer, localPersistTimer,
                                flushing, needsTrailingFlush, destroyed,
                                storage>>
                 /\ returned' = Resolved(status)
                 /\ returned'.ok = (status = "saved")]_vars

\* A flush() with an empty Draft Store and status error has resolved with ok
\* false and has left the status at error.
C12_Witness ==
    /\ drafts = <<>>
    /\ status = "error"
    /\ returned = Resolved("error")
    /\ ~DrainActive

\* Flush call s is the only call, the client has called nothing else since it
\* began, none of its writes has failed, and the step keeps it that way.
UndisturbedStep(s) ==
    /\ fl = SetToBag({s})
    /\ s.solo
    /\ s.errs = 0
    /\ \A d \in BagToSet(fl') : fl'[d] = 1 /\ d.solo /\ d.errs = 0

\* C13: an edit made while the status is saved or pending and no flush runs
\* leaves the status pending; of a flush that follows, with every write
\* succeeding and no edit arriving, the only status changes are pending to
\* saving when its pass starts and saving to saved when its last write
\* succeeds, both take place, and the call resolves with status saved.
C13_StatusSequence ==
    [][/\ \A cvTypeId \in Entities, data \in Payloads :
             (/\ Edited(cvTypeId, data)
              /\ ~destroyed
              /\ fl = EmptyBag
              /\ status \in {"saved", "pending"})
                 => status' = "pending"
       /\ \A s \in Calls :
             (UndisturbedStep(s) /\ status # "error")
                 => /\ status' # status
                       => \/ /\ status = "pending"
                             /\ status' = "saving"
                             /\ FlushPersistCompletes(s)
                          \/ /\ status = "saving"
                             /\ status' = "saved"
                             /\ \E resp \in RemoteStates : WriteOk(s, resp)
                    /\ (FlushPersistCompletes(s) /\ hasPendingDrafts(drafts))
                          => status = "pending" /\ status' = "saving"
                    /\ (Len(s.entries) = 1 /\ \E resp \in RemoteStates : WriteOk(s, resp))
                          => status = "saving" /\ status' = "saved"
                    /\ (FinalPersistCompletes(s) /\ s.cmds # <<>>)
                          => /\ status = "saved"
                             /\ returned' = Resolved("saved")
                             /\ returned'.ok]_vars

\* One edit was made from status saved, the flush that followed has written
\* it and is about to resolve: the status has gone through saving to saved.
C13_Witness ==
    /\ edits = 1
    /\ status = "saved"
    /\ drafts = <<>>
    /\ \E s \in Calls :
          /\ fl = SetToBag({s})
          /\ s.pc = "persistFinal"
          /\ s.cmds = FirstWrite
          /\ s.solo
          /\ s.errs = 0

\* C14 as stated: two states that agree on (Draft Store is empty, a flush
\* pass is in progress, outcome of the last flush) have the same status; so
\* a step in which no flush call starts, advances or ends, and which changes
\* neither the emptiness of the Draft Store nor the flushing flag, leaves the
\* status as it is.
C14_StatusIsFunction ==
    [][(/\ fl' = fl
        /\ flushing' = flushing
        /\ (drafts' = <<>>) = (drafts = <<>>))
           => status' = status]_vars

\* C14, amended: the three values bound the status without fixing it: the
\* status is saving only while a flush pass is in progress, error only while
\* none is, and saved only while the Draft Store is empty.
C14_StatusBounds ==
    /\ status = "saving" => flushing
    /\ status = "error" => ~flushing
    /\ status = "saved" => drafts = <<>>

\* After a failed flush was persisted an edit has set the status to pending:
\* Draft Store non-empty, no pass in progress, last flush failed, as in the
\* state right after the failure, where the status was error.
C14_Witness ==
    /\ status = "pending"
    /\ storage.status = "error"
    /\ drafts # <<>>
    /\ ~flushing
    /\ fl = EmptyBag

\* C15: a step that changes the status while a flush pass is active (the
\* flushing flag is set before or after it) is the start of the pass, which
\* sets saving, or leads from saving to saved with the drain ended and the
\* Draft Store empty, from saving to pending with drafts remaining, or from
\* saving to error on a rejected command; edits made mid-flight included.
C15_FlushStatusTransitions ==
    [][((flushing \/ flushing') /\ status' # status)
          => \/ /\ ~flushing
                /\ flushing'
                /\ status \in {"pending", "error"}
                /\ status' = "saving"
             \/ /\ status = "saving"
                /\ status' = "saved"
                /\ DrainEnds
                /\ drafts' = <<>>
             \/ /\ status = "saving"
                /\ status' = "pending"
                /\ drafts' # <<>>
             \/ /\ status = "saving"
                /\ status' = "error"
                /\ \E s \in Calls, code \in ErrorCodes :
                      WriteRejected(s, code) \/ ReloadRejected(s)]_vars

\* C16: when a remote command completes after destroy(), its result is
\* ignored: the step changes neither the Draft Store nor the status (a
\* change of which is a call of onStatus).
C16_DestroyedIgnoresResults ==
    [][\A s \in Calls :
          (/\ destroyed
           /\ Outstanding(s)
           /\ \/ \E resp \in RemoteStates : WriteOk(s, resp)
              \/ \E code \in ErrorCodes : WriteRejected(s, code)
              \/ \E resp \in RemoteStates : ReloadSucceeds(s, resp)
              \/ ReloadRejected(s))
              => /\ drafts' = drafts
                 /\ status' = status]_vars

\* C17: a write rejected with an error other than STATE_CONFLICT ends the
\* drain with no command appended to those of the flush and leaves both
\* timers as they were; and from a state with no command outstanding a
\* command is issued only by the pass a flush call starts, a flush call
\* begins only in flush() or when the armed idle timer fires, and the idle
\* timer is armed only by scheduleTypeSave.
C17_PlainFailureIsFinal ==
    [][/\ \A s \in Calls, code \in ErrorCodes \ {"STATE_CONFLICT"} :
             WriteRejected(s, code)
                 => /\ NoneOutstanding(fl')
                    /\ idleTimer' = idleTimer
                    /\ localPersistTimer' = localPersistTimer
                    /\ BagCardinality(fl') = BagCardinality(fl)
                    /\ \E d \in BagToSet(fl') :
                          /\ d.pc = "persistFinal"
                          /\ d.cmds = s.cmds
                          /\ d.errs = 1
       /\ (NoneOutstanding(fl) /\ ~NoneOutstanding(fl'))
             => \E s \in Calls : s.pc = "persist" /\ FlushPersistCompletes(s)
       /\ BagCardinality(fl') > BagCardinality(fl)
             => \/ Flush(BOOLEAN)
                \/ Lifecycle(BOOLEAN)
                \/ idleTimer /\ IdleTimerFired
       /\ (idleTimer' /\ ~idleTimer)
             => \E cvTypeId \in Entities, data \in Payloads :
                   Edited(cvTypeId, data)]_vars

\* The one write of a flush was rejected with a non-conflict error: no
\* further command was issued, no timer is armed, the draft is kept.
C17_Witness ==
    /\ status = "error"
    /\ ~idleTimer
    /\ ~localPersistTimer
    /\ HasDraft(drafts, "t1")
    /\ NoneOutstanding(fl)
    /\ \E s \in Calls :
          /\ s.pc = "persistFinal"
          /\ s.cmds = FirstWrite
          /\ s.errs = 1

\* C18: a write whose caller's last-known stamp (the expected stamp a
\* STATE_SAVE sends, the stamp of the state the router holds for a
\* CV_UPDATE_TYPE) differs from the stamp of the file in Drive is answered
\* with STATE_CONFLICT and leaves the file as it is.
C18_StaleWriteRejected ==
    [][/\ \A data \in Payloads, e \in Stamps :
             (STATE_SAVE(data, e) /\ e # drive.file.updatedAt)
                 => /\ drive'.response = "STATE_CONFLICT"
                    /\ drive'.file = drive.file
       /\ \A data \in Payloads :
             (/\ CV_UPDATE_TYPE(data)
              /\ getState(drive).cachedState.updatedAt # drive.file.updatedAt)
                 => /\ drive'.response = "STATE_CONFLICT"
                    /\ drive'.file = drive.file]_vars

\* C19: when every flush is started by the idle timer, no promise of the
\* engine rejects, whatever the storage area and the remote store answer: not
\* the flush() of the idle timer, not the persistDrafts() of the persist
\* timer; and an idle flush whose storage write failed still starts its pass
\* when drafts are pending.
C19_TimerFailuresStayInside ==
    /\ [](returned.kind # "rejected")
    /\ [][\A s \in Calls :
             (/\ FlushPersistCompletes(s)
              /\ ~s.stored
              /\ ~flushing
              /\ hasPendingDrafts(drafts))
                 => ~NoneOutstanding(fl')]_vars

\* C20: a flush() call on a controller that is not destroyed leaves the idle
\* timer disarmed and is in progress at once, its storage write made; the
\* pass it starts sends its first command whether or not a timer is armed;
\* the idle timer fires only while armed, and only scheduleTypeSave arms it.
C20_FlushPreemptsIdleTimer ==
    [][/\ (Flush(BOOLEAN) /\ ~destroyed)
             => /\ ~idleTimer'
                /\ BagCardinality(fl') = BagCardinality(fl) + 1
                /\ \E d \in BagToSet(fl') : d.pc = "persist" /\ d.cmds = <<>>
                /\ storage' = [drafts |-> drafts, status |-> status]
       /\ \A s \in Calls :
             (FlushPersistCompletes(s) /\ ~flushing /\ hasPendingDrafts(drafts))
                 => \E d \in BagToSet(fl') : d.pc = "send"
       /\ IdleTimerFired => idleTimer
       /\ (idleTimer' /\ ~idleTimer)
             => \E cvTypeId \in Entities, data \in Payloads, base \in BaseVersions,
                   now \in ClockValues :
                   scheduleTypeSave(cvTypeId, data, base, now)]_vars

\* After an edit flush() was called: its call is in progress, the idle timer
\* the edit armed is disarmed while the persist timer is still armed.
C20_Witness ==
    /\ ~destroyed
    /\ ~idleTimer
    /\ localPersistTimer
    /\ HasDraft(drafts, "t1")
    /\ status = "pending"
    /\ \E s \in Calls : fl = SetToBag({s}) /\ s.pc = "persist" /\ s.solo

\* C21: a step changes the status exactly when it calls onStatus, which it
\* then calls once, with the new status: so no value is passed twice in a
\* row and the value passed last is the current status.
C21_OnStatusFollowsStatus ==
    [][/\ status' # status => onStatus' = <<status'>>
       /\ onStatus' # <<>> => onStatus' = <<status'>> /\ status' # status]_vars

\* A failed write has just been reported through onStatus.
C21_Witness ==
    /\ onStatus = <<"error">>
    /\ status = "error"
    /\ \E s \in Calls : s.pc = "persistFinal" /\ s.errs = 1

\* C22: the step of a successful write calls onState once, with source
\* sync, when the response carries a state and not at all when it carries
\* none; the step of a successful conflict reload likewise, with source
\* conflict-reload; these are the only onState calls, a rejected write or
\* reload makes none, and the sync call of a write recovered after a
\* conflict comes after the step of the reload.
C22_OnStateOncePerResponse ==
    [][/\ (\E s \in Calls, resp \in RemoteStates : WriteOk(s, resp))
             => \E s \in Calls, resp \in RemoteStates :
                   WriteOk(s, resp) /\ onState' = Carried(resp, "sync")
       /\ (\E s \in Calls, resp \in RemoteStates : ReloadSucceeds(s, resp))
             => \E s \in Calls, resp \in RemoteStates :
                   /\ ReloadSucceeds(s, resp)
                   /\ onState' = Carried(resp, "conflict-reload")
                   /\ s.cmds = <<"CV_UPDATE_TYPE", "STATE_LOAD">>
       /\ (\E s \in Calls, code \in ErrorCodes :
              WriteRejected(s, code) \/ ReloadRejected(s))
             => onState' = <<>>
       /\ onState' # <<>>
             => \/ onState' = <<"sync">>
                   /\ \E s \in Calls, resp \in RemoteStates \ {NullState} :
                         WriteOk(s, resp)
                \/ onState' = <<"conflict-reload">>
                   /\ \E s \in Calls, resp \in RemoteStates \ {NullState} :
                         ReloadSucceeds(s, resp)]_vars

\* The write resent after a conflict reload has succeeded and its state was
\* handed to onState.
C22_Witness ==
    /\ onState = <<"sync">>
    /\ \E s \in Calls : s.pc = "persistFinal" /\ s.cmds = Recovered /\ s.errs = 0

\* C23: the Draft Store never holds two drafts of one entity, and
\* scheduleTypeSave(e, p, v) with a non-empty e at clock reading now makes
\* the draft of e exactly (e, p, now, v, dirty) and leaves the drafts of the
\* other entities as they were.
C23_OneDraftPerEntity ==
    /\ [](\A i, j \in 1..Len(drafts) :
             drafts[i].cvTypeId = drafts[j].cvTypeId => i = j)
    /\ [][\A e \in Entities, p \in Payloads, v \in BaseVersions,
             now \in ClockValues :
             scheduleTypeSave(e, p, v, now)
                 => /\ HasDraft(drafts', e)
                    /\ DraftOf(drafts', e) = MakeDraft(e, p, now, v)
                    /\ \A o \in Entities \ {e} :
                          /\ HasDraft(drafts', o) = HasDraft(drafts, o)
                          /\ HasDraft(drafts, o)
                                => DraftOf(drafts', o) = DraftOf(drafts, o)]_vars

\* A draft of t1 was replaced by a later edit while nothing else was edited.
C23_Witness ==
    /\ edits = 2
    /\ Len(drafts) = 1
    /\ HasDraft(drafts, "t1")
    /\ DraftOf(drafts, "t1").data = 2
    /\ DraftOf(drafts, "t1").localUpdatedAtMs = 2
    /\ fl = EmptyBag
    /\ status = "pending"

\* C24: a pagehide, a beforeunload and a visibilitychange with the
\* visibilityState hidden each call onFlush once, with the name of the event;
\* a visibilitychange with another visibilityState calls nothing; and once
\* the listeners are unregistered no event calls onFlush.
C24_OneFlushPerLifecycleEvent ==
    [][\A outcome \in Outcomes :
          /\ (onPageHide(outcome) /\ lifecycle.listeners # {})
                => lifecycle'.onFlush = <<"pagehide">>
          /\ (onBeforeUnload(outcome) /\ lifecycle.listeners # {})
                => lifecycle'.onFlush = <<"beforeunload">>
          /\ \A v \in VisibilityStates :
                (onVisibilityChange(v, outcome) /\ lifecycle.listeners # {})
                    => lifecycle'.onFlush = IF v = "hidden"
                                            THEN <<"visibilitychange">>
                                            ELSE <<>>
          /\ ((\/ onPageHide(outcome)
               \/ onBeforeUnload(outcome)
               \/ \E v \in VisibilityStates : onVisibilityChange(v, outcome))
              /\ lifecycle.listeners = {})
                => lifecycle'.onFlush = <<>>]_vars

\* After other events, a visibilitychange to hidden has called onFlush.
C24_Witness ==
    /\ lifecycle.dispatched >= 2
    /\ lifecycle.visibilityState = "hidden"
    /\ lifecycle.onFlush = <<"visibilitychange">>

\* C25: whatever onFlush does (throw or return a promise that rejects), the
\* listener returns normally and leaves no unhandled rejection, the
\* listeners stay registered, and the next event calls onFlush again.
C25_LifecycleFailuresSwallowed ==
    /\ [](~lifecycle.thrown /\ ~lifecycle.unhandled)
    /\ [][\A outcome \in Outcomes :
             (/\ lifecycle.outcome \in {"throws", "rejects"}
              /\ \/ onPageHide(outcome)
                 \/ onBeforeUnload(outcome)
                 \/ onVisibilityChange("hidden", outcome))
                 => /\ Len(lifecycle'.onFlush) = 1
                    /\ lifecycle'.outcome = outcome
                    /\ lifecycle'.listeners = LifecycleEvents]_vars

\* onFlush has thrown in the listener of an event that followed another.
C25_Witness ==
    /\ lifecycle.dispatched >= 2
    /\ lifecycle.outcome = "throws"
    /\ lifecycle.onFlush = <<"pagehide">>
    /\ ~lifecycle.thrown

\* C26: the step in which restoreDrafts restores at least one draft leaves
\* the status pending and the idle timer armed; and when the timer fires and
\* the remote store accepts the writes, the status becomes saved with an
\* empty Draft Store, no edit and no flush() call being needed for it.
C26_RestoredDraftsGetFlushed ==
    /\ [][(RestoreLoadCompleted /\ hasPendingDrafts(drafts'))
             => idleTimer' /\ status' = "pending"]_vars
    /\ (rs.pc = "set" /\ hasPendingDrafts(drafts))
          ~> (status = "saved" /\ ~hasPendingDrafts(drafts))

\* The draft restored after a reload has been written by the idle flush:
\* no edit was made in the new controller.
C26_Witness ==
    /\ instances = 1
    /\ rs.n = 1
    /\ edits = 1
    /\ status = "saved"
    /\ drafts = <<>>
    /\ storage = [drafts |-> <<>>, status |-> "saved"]
    /\ \E s \in Calls : s.pc = "persistFinal" /\ s.cmds = FirstWrite

\* Sequence s is in non-decreasing order of localUpdatedAtMs.
InTimeOrder(s) ==
    \A i, j \in 1..Len(s) :
        i < j => s[i].localUpdatedAtMs <= s[j].localUpdatedAtMs

\* C27: the pass a flush starts collects every draft, in non-decreasing
\* order of localUpdatedAtMs, and sends the write of the first; a write that
\* succeeds is followed by the write of the next entry collected, the order
\* kept; a conflict, its reload and the resend stay with the same entry; and
\* at most one command is outstanding.
C27_SequentialInTimeOrder ==
    /\ [](AtMostOneOutstanding(fl))
    /\ [][\A s \in Calls :
             /\ (/\ FlushPersistCompletes(s)
                 /\ ~flushing
                 /\ hasPendingDrafts(drafts))
                    => \E d \in BagToSet(fl') :
                          /\ d.pc = "send"
                          /\ d.cmds = FirstWrite
                          /\ Len(d.entries) = Len(drafts)
                          /\ \A i \in 1..Len(drafts) :
                                \E j \in 1..Len(d.entries) :
                                    d.entries[j] = drafts[i]
                          /\ InTimeOrder(d.entries)
             /\ \A resp \in RemoteStates :
                   (WriteOk(s, resp) /\ Len(s.entries) > 1)
                       => \E d \in BagToSet(fl') :
                             /\ d.pc = "send"
                             /\ d.cmds = FirstWrite
                             /\ d.entries = Tail(s.entries)
                             /\ Head(s.entries).localUpdatedAtMs
                                   <= Head(d.entries).localUpdatedAtMs
             /\ (\/ \E resp \in RemoteStates : ReloadSucceeds(s, resp)
                 \/ (WriteRejected(s, "STATE_CONFLICT") /\ ~s.recoveredConflict))
                    => \E d \in BagToSet(fl') :
                          /\ Outstanding(d)
                          /\ d.entries = s.entries]_vars

\* The draft edited first is last in the Draft Store order: its write was
\* sent first and has succeeded, the write of the other is outstanding.
C27_Witness ==
    /\ Len(storage.drafts) = 2
    /\ storage.drafts[2].localUpdatedAtMs < storage.drafts[1].localUpdatedAtMs
    /\ \E s \in Calls :
          /\ s.pc = "send"
          /\ s.cmds = FirstWrite
          /\ s.entries = <<storage.drafts[1]>>

\* The step sends a CV_UPDATE_TYPE: d is the call after it.
Issues(d) ==
    /\ d \in BagToSet(fl')
    /\ d.pc = "send"
    /\ \A s \in Calls :
          ~(s.pc = "send" /\ s.entries = d.entries /\ s.cmds = d.cmds)

\* C28: a CV_UPDATE_TYPE is sent only for an entity that has a draft: the
\* draft of an entity missing from an absorbed envelope is pruned, so until
\* the entity is edited again no write is sent for it, not even by a pass
\* that collected its draft before the envelope was absorbed.
C28_NoWriteForPrunedEntity ==
    [][\A d \in BagToSet(fl') :
          Issues(d) => HasDraft(drafts', Head(d.entries).cvTypeId)]_vars

\* C29: when the STATE_LOAD that follows a STATE_CONFLICT resolves with an
\* envelope, the drafts of the entities the envelope does not list are
\* pruned in the step that resends the write.
C29_ReloadAbsorbed ==
    [][\A s \in Calls, resp \in RemoteStates :
          (ReloadSucceeds(s, resp) /\ resp.kind = "list")
              => drafts' = pruneDraftsAgainstRemote(drafts, resp)]_vars

\* The persist timer fires and its write reaches the storage area.
PersistTimerFired ==
    \E now \in ClockValues : PersistTimerFires(TRUE, now)

\* C30: at most one idle timeout and at most one persist timeout is pending
\* at any time; a scheduleTypeSave with an entity id leaves exactly one of
\* each, armed, and the Draft Store holds the draft it made; the persist
\* timer fires only as the one pending timeout, leaves none and writes the
\* Draft Store; so that after the one write that follows a burst of edits the
\* storage area holds the latest draft of every edited entity.
C30_TimersRearmed ==
    /\ [](armed.idle <= 1 /\ armed.persist <= 1)
    /\ [][\A id \in Entities, data \in Payloads :
            Edited(id, data)
                => /\ idleTimer' /\ armed'.idle = 1
                   /\ localPersistTimer' /\ armed'.persist = 1
                   /\ HasDraft(drafts', id)
                   /\ DraftOf(drafts', id).data = data]_vars
    /\ [][PersistTimerFired
            => /\ armed.persist = 1
               /\ armed'.persist = 0
               /\ storage'.drafts = drafts]_vars
    /\ [](armed.persist = 0 => storage.drafts = drafts)

\* Both entities were edited in one burst, and the one persist timeout that
\* was left has fired.
C30_Witness ==
    /\ edits = 2
    /\ Len(drafts) = 2
    /\ armed.persist = 0
    /\ armed.idle = 1
    /\ storage.drafts = drafts

\* The step begins a flush() call that does not return at once.
FlushCalled == BagCardinality(fl') > BagCardinality(fl)

\* C31: at most one command is outstanding at any time; when the last write
\* of a pass succeeds, the drain runs one more pass if a trailing pass was
\* requested and drafts are left, and ends if none was requested; and every
\* flush() call in progress settles when the storage writes settle and the
\* remote commands are answered (in a run in which flush() is called without
\* end, the calls made last are the ones in progress).
C31_FlushSettles ==
    /\ [][/\ AtMostOneOutstanding(fl')
          /\ \A s \in Calls, resp \in RemoteStates :
                (WriteOk(s, resp) /\ Len(s.entries) = 1)
                    => /\ ~needsTrailingFlush'
                       /\ (needsTrailingFlush /\ hasPendingDrafts(drafts'))
                             => /\ flushing'
                                /\ \E d \in BagToSet(fl') :
                                      /\ d.pc = "send"
                                      /\ d.entries = SortEntries(drafts')
                       /\ ~needsTrailingFlush
                             => /\ ~flushing'
                                /\ NoneOutstanding(fl')]_vars
    /\ <>[][~FlushCalled]_vars => ((fl # EmptyBag) ~> (fl = EmptyBag))

\* A trailing pass is running: an edit arrived after the flush had reported
\* saving, and the loop has cleared the request it made.
C31_Witness ==
    /\ flushing
    /\ DrainActive
    /\ status = "pending"
    /\ ~needsTrailingFlush

\* C32: in a session in which the controller is not destroyed, the armed
\* timers fire and every write issued after the last edit succeeds, pending
\* drafts lead to an empty Draft Store with status saved.
C32_EventuallySaved ==
    hasPendingDrafts(drafts) ~> (drafts = <<>> /\ status = "saved")

\* Draft d is in the sequence of drafts m.
Holds(m, d) == \E i \in 1..Len(m) : m[i] = d

\* C33: every draft that scheduleTypeSave puts into the Draft Store reaches
\* the storage area, unless it is removed from the Draft Store first, when
\* the armed timers fire and the storage writes succeed, also in the runs in
\* which destroy() is called.
C33_DraftReachesStorage ==
    \A data \in Payloads, now \in ClockValues, base \in BaseVersions :
        LET d == MakeDraft("t1", data, now, base)
        IN  Holds(drafts, d) ~> (Holds(storage.drafts, d) \/ ~Holds(drafts, d))

\* C34: a draft that scheduleTypeSave put into the Draft Store while
\* restoreDrafts was waiting for the storage area, and whose entity the
\* remote envelope does not lack, is in the Draft Store, unchanged, when
\* restoreDrafts goes on.
C34_EditDuringRestoreSurvives ==
    [][RestoreLoadCompleted
          => \A e \in Entities :
                (HasDraft(drafts, e) /\ Lists(rs.remote, e))
                    => /\ HasDraft(drafts', e)
                       /\ DraftOf(drafts', e) = DraftOf(drafts, e)]_vars

\* The step sends a STATE_LOAD: d is the call after it.
Reloads(d) ==
    /\ d \in BagToSet(fl')
    /\ d.pc = "load"
    /\ \A s \in Calls : s.pc # "load"

\* C35: once destroy() has been called no step sends a CV_UPDATE_TYPE or a
\* STATE_LOAD, a flush() call returns reason destroyed and leaves the
\* storage area and the calls in progress alone, and neither timer fires.
C35_NothingStartsAfterDestroy ==
    [][destroyed
          => /\ \A d \in BagToSet(fl') : ~Issues(d) /\ ~Reloads(d)
             /\ (\E ok \in BOOLEAN, now \in FallbackClock : flush("manual", ok, now))
                   => /\ returned'.kind = "destroyed"
                      /\ UNCHANGED <<storage, fl>>
             /\ ~IdleTimerFired
             /\ ~PersistTimerFired]_vars

\* C36: a CV_UPDATE_TYPE that is sent for an entity with a draft carries the
\* payload of that draft as it is when the command is sent, in the first
\* write of a pass, in the writes that follow it and in the resend after a
\* conflict.
C36_WriteCarriesCurrentPayload ==
    [][\A d \in BagToSet(fl') :
          (Issues(d) /\ HasDraft(drafts', Head(d.entries).cvTypeId))
              => Head(d.entries).data
                    = DraftOf(drafts', Head(d.entries).cvTypeId).data]_vars

\* C37: whenever the status is saved the Draft Store is empty, whatever the
\* order of edits, flushes, timer firings, absorbRemoteState calls and
\* restoreDrafts calls.
C37_SavedMeansNoDraft == status = "saved" => drafts = <<>>

\* In a session with an edit and a restoreDrafts call a flush has resolved
\* with status saved, and the storage area holds the empty Draft Store.
C37_Witness ==
    /\ rs.n = 1
    /\ edits = 1
    /\ status = "saved"
    /\ drafts = <<>>
    /\ returned = Resolved("saved")
    /\ storage = [drafts |-> <<>>, status |-> "saved"]

\* C38: the flushing flag is set exactly while a remote command of a drain
\* is outstanding, so that it is clear when a flush() has settled and no
\* other call is in progress, after a success and after a failure; and a
\* flush() that reaches performFlush with the flag clear and a draft in the
\* Draft Store sets the flag and sends a CV_UPDATE_TYPE, whatever the status
\* and the trailing request an earlier flush left.
C38_FlagFollowsDrain ==
    /\ [](flushing = DrainActive)
    /\ [][/\ (returned'.call = "flush" /\ fl' = EmptyBag) => ~flushing'
          /\ \A s \in Calls :
                (/\ FlushPersistCompletes(s)
                 /\ s.stored
                 /\ ~flushing
                 /\ hasPendingDrafts(drafts))
                    => /\ flushing'
                       /\ ~needsTrailingFlush'
                       /\ \E d \in BagToSet(fl') :
                             /\ Issues(d)
                             /\ d.entries = SortEntries(drafts)]_vars

\* A drain is running that a flush() started after an earlier flush had
\* failed: the status it stored before its pass was error.
C38_Witness ==
    /\ flushing
    /\ DrainActive
    /\ status = "saving"
    /\ storage.status = "error"
    /\ hasPendingDrafts(drafts)

\* C39: absorbRemoteState(remote) leaves in the Draft Store exactly the
\* drafts whose entity remote.cvTypes lists, all of them when remote has no
\* cvTypes list, each as it was; it changes the status only to saved, and
\* only when it leaves the Draft Store empty and the flushing flag is clear;
\* while the flag is set the status stays as it is.
C39_AbsorbPrunesOnly ==
    [][\A remote \in RemoteStates :
          absorbRemoteState(remote)
              => /\ \A e \in Entities :
                       /\ HasDraft(drafts', e)
                             <=> (HasDraft(drafts, e) /\ Lists(remote, e))
                       /\ HasDraft(drafts', e)
                             => DraftOf(drafts', e) = DraftOf(drafts, e)
                 /\ status' # status
                       => (status' = "saved" /\ drafts' = <<>> /\ ~flushing)
                 /\ flushing => status' = status]_vars

\* Both drafts were pruned by absorbRemoteState, which has set the status to
\* saved: no flush has been called, nothing was written to the storage area.
C39_Witness ==
    /\ edits = 2
    /\ drafts = <<>>
    /\ status = "saved"
    /\ storage.status = "none"
    /\ idleTimer

====
